---- MODULE Spec2Model ----
(***************************************************************************)
(* A model of SCBApiClient (src/src/api-client.ts, the class that starts   *)
(* at line 402): the windowed rate limiter, the name/value translators,    *)
(* the selection validator and the data query built on them.               *)
(*                                                                         *)
(* JavaScript strings are TLA+ strings; JavaScript objects with ordered    *)
(* keys (Record<string, T>) are sequences of records [key, val] with       *)
(* pairwise different keys, in insertion order.  Dates are integers, the   *)
(* milliseconds of Date.getTime().                                         *)
(***************************************************************************)
EXTENDS Integers, Sequences, FiniteSets, TLC

(***************************************************************************)
(* Strings: String.prototype.toLowerCase, startsWith, includes, join,      *)
(* the two regular expressions of translateCommonValues and replace.       *)
(***************************************************************************)
UpperChars == "ABCDEFGHIJKLMNOPQRSTUVWXYZÅÄÖ"

LowerChars == "abcdefghijklmnopqrstuvwxyzåäö"

Digits == "0123456789"

CharAt(s, i) == SubSeq(s, i, i)

IsIn(ch, alphabet) == \E i \in 1..Len(alphabet) : CharAt(alphabet, i) = ch

LowerChar(ch) ==
    IF IsIn(ch, UpperChars)
    THEN CharAt(LowerChars, CHOOSE i \in 1..Len(UpperChars) : CharAt(UpperChars, i) = ch)
    ELSE ch

RECURSIVE ToLowerCase(_)
ToLowerCase(s) ==
    IF Len(s) = 0 THEN ""
    ELSE LowerChar(CharAt(s, 1)) \o ToLowerCase(SubSeq(s, 2, Len(s)))

StartsWith(s, prefix) ==
    /\ Len(prefix) <= Len(s)
    /\ SubSeq(s, 1, Len(prefix)) = prefix

Includes(s, part) ==
    \E i \in 1..(Len(s) + 1) :
        /\ i + Len(part) - 1 <= Len(s)
        /\ SubSeq(s, i, i + Len(part) - 1) = part

RECURSIVE Join(_, _)
Join(strs, sep) ==
    IF Len(strs) = 0 THEN ""
    ELSE IF Len(strs) = 1 THEN strs[1]
    ELSE strs[1] \o sep \o Join(Tail(strs), sep)

AllDigits(s) == \A i \in 1..Len(s) : IsIn(CharAt(s, i), Digits)

\* /^\d{4}$/
IsYear(s) == Len(s) = 4 /\ AllDigits(s)

\* /^\d{4}-\d{2}$/
IsYearMonth(s) ==
    /\ Len(s) = 7
    /\ AllDigits(SubSeq(s, 1, 4))
    /\ CharAt(s, 5) = "-"
    /\ AllDigits(SubSeq(s, 6, 7))

\* value.replace('-', 'M'): the first occurrence only
ReplaceDashM(s) ==
    IF \E i \in 1..Len(s) : CharAt(s, i) = "-"
    THEN LET i == CHOOSE j \in 1..Len(s) :
                      /\ CharAt(s, j) = "-"
                      /\ \A k \in 1..(j - 1) : CharAt(s, k) # "-"
         IN  SubSeq(s, 1, i - 1) \o "M" \o SubSeq(s, i + 1, Len(s))
    ELSE s

(***************************************************************************)
(* Objects with ordered keys.                                              *)
(***************************************************************************)
Keys(obj) == [i \in 1..Len(obj) |-> obj[i].key]

HasKey(obj, k) == \E i \in 1..Len(obj) : obj[i].key = k

\* obj[k] of an object that has the key; a table lookup that misses is
\* undefined in JavaScript, which the callers test with HasKey
Get(obj, k) == obj[CHOOSE i \in 1..Len(obj) : obj[i].key = k].val

\* obj[k] = v: an existing key keeps its place, a new key is added last
Put(obj, k, v) ==
    IF HasKey(obj, k)
    THEN [i \in 1..Len(obj) |-> IF obj[i].key = k THEN [key |-> k, val |-> v] ELSE obj[i]]
    ELSE Append(obj, [key |-> k, val |-> v])

\* Array.prototype.includes
Contains(arr, x) == \E i \in 1..Len(arr) : arr[i] = x

(***************************************************************************)
(* translateCommonVariables: the static name table and the lookup.         *)
(***************************************************************************)
KV(k, v) == [key |-> k, val |-> v]

variableMapping ==
    << KV("år", "Tid"), KV("månad", "Tid"), KV("kön", "Kon"), KV("ålder", "Alder"),
       KV("län", "Region"), KV("kommun", "Region"),
       KV("utbildning", "UtbildningsNiva"), KV("sysselsättning", "Sysselsattning"),
       KV("inkomst", "Inkomst"), KV("familjetyp", "Familjetyp"),
       KV("civilstånd", "Civilstand"),
       KV("year", "Tid"), KV("time", "Tid"), KV("month", "Tid"),
       KV("sex", "Kon"), KV("gender", "Kon"), KV("age", "Alder"),
       KV("county", "Region"), KV("municipality", "Region"),
       KV("education", "UtbildningsNiva"), KV("employment", "Sysselsattning"),
       KV("income", "Inkomst"), KV("family_type", "Familjetyp"),
       KV("marital_status", "Civilstand"),
       KV("region", "Region"), KV("alder", "Alder"), KV("kon", "Kon"),
       KV("tid", "Tid"), KV("utbildningsniva", "UtbildningsNiva"),
       KV("sysselsattning", "Sysselsattning"), KV("civilstand", "Civilstand"),
       KV("contentscode", "ContentsCode"), KV("observations", "ContentsCode"),
       KV("contents", "ContentsCode") >>

\* the properties an object literal inherits from Object.prototype: a
\* lookup table[k] that finds no own property k finds these
InheritedNames ==
    { "constructor", "__proto__", "hasOwnProperty", "isPrototypeOf", "propertyIsEnumerable",
      "toLocaleString", "toString", "valueOf", "__defineGetter__", "__defineSetter__",
      "__lookupGetter__", "__lookupSetter__" }

\* an inherited property is a function, or Object.prototype for __proto__:
\* it is written here as the string String() makes of it, which is also
\* the property name it becomes when used as a key; no input string has
\* this text
InheritedText(name) ==
    IF name = "__proto__" THEN "[object Object]"
    ELSE "function " \o (IF name = "constructor" THEN "Object" ELSE name)
           \o "() { [native code] }"

IsString(value) == value \notin { InheritedText(name) : name \in InheritedNames }

\* variableMapping[key] || variableMapping[key.toLowerCase()] || key
MappedKey(key) ==
    IF HasKey(variableMapping, key) THEN Get(variableMapping, key)
    ELSE IF key \in InheritedNames THEN InheritedText(key)
    ELSE IF HasKey(variableMapping, ToLowerCase(key))
         THEN Get(variableMapping, ToLowerCase(key))
    ELSE IF ToLowerCase(key) \in InheritedNames THEN InheritedText(ToLowerCase(key))
    ELSE key

RECURSIVE TranslateEntries(_, _)
TranslateEntries(entries, acc) ==
    IF Len(entries) = 0 THEN acc
    ELSE TranslateEntries(Tail(entries),
                          Put(acc, MappedKey(entries[1].key), entries[1].val))

translateCommonVariables(selection) == TranslateEntries(selection, <<>>)

(***************************************************************************)
(* translateCommonValues: the per-variable and the general synonym tables, *)
(* then the time formats.                                                  *)
(***************************************************************************)
\* valueMapping with the wildcard among the synonyms of the total
valueMappingWithWildcard ==
    << KV("Alder", << KV("total", "tot"), KV("all", "tot"), KV("totalt", "tot"),
                      KV("totals", "TotSA") >>),
       KV("Tid",   << KV("latest", "2024"), KV("recent", "2024"),
                      KV("current", "2024") >>),
       KV("Kon",   << KV("total", "tot"), KV("all", "tot"), KV("male", "1"),
                      KV("female", "2"), KV("men", "1"), KV("women", "2"),
                      KV("man", "1"), KV("woman", "2"), KV("*", "tot") >>),
       KV("*",     << KV("total", "tot"), KV("all", "*"), KV("totalt", "tot"),
                      KV("alla", "*") >>) >>

valueMapping ==
    << KV("Alder", << KV("total", "tot"), KV("all", "tot"), KV("totalt", "tot"),
                      KV("totals", "TotSA") >>),
       KV("Tid",   << KV("latest", "2024"), KV("recent", "2024"),
                      KV("current", "2024") >>),
       KV("Kon",   << KV("total", "tot"), KV("all", "tot"), KV("male", "1"),
                      KV("female", "2"), KV("men", "1"), KV("women", "2"),
                      KV("man", "1"), KV("woman", "2") >>),
       KV("*",     << KV("total", "tot"), KV("all", "*"), KV("totalt", "tot"),
                      KV("alla", "*") >>) >>

\* lines 653-676, for a value that is a string and a variable name that is
\* no inherited property name (the translated keys never are)
TranslateValue(value, variableName) ==
    LET lower == ToLowerCase(value)
        hasSpecific == HasKey(valueMapping, variableName)
        generalMapping == Get(valueMapping, "*")
    IN  IF hasSpecific /\ HasKey(Get(valueMapping, variableName), lower)
        THEN Get(Get(valueMapping, variableName), lower)
        ELSE IF hasSpecific /\ lower \in InheritedNames THEN InheritedText(lower)
        ELSE IF HasKey(generalMapping, lower)
        THEN Get(generalMapping, lower)
        ELSE IF lower \in InheritedNames THEN InheritedText(lower)
        ELSE IF variableName = "Tid" /\ IsYear(value) THEN value
        ELSE IF variableName = "Tid" /\ IsYearMonth(value) THEN ReplaceDashM(value)
        ELSE value

translateCommonValues(values, variableName) ==
    [i \in 1..Len(values) |-> TranslateValue(values[i], variableName)]

\* validateSelection, lines 686-694: names first, then each value list
\* under its translated name
RECURSIVE FinalEntries(_, _)
FinalEntries(entries, acc) ==
    IF Len(entries) = 0 THEN acc
    ELSE FinalEntries(Tail(entries),
                      Put(acc, entries[1].key,
                          translateCommonValues(entries[1].val, entries[1].key)))

ResolveSelection(selection) == FinalEntries(translateCommonVariables(selection), <<>>)

(***************************************************************************)
(* validateSelection after the metadata arrived (lines 699-776).           *)
(* A Dataset is [dimension |-> object code -> [label, category]], where    *)
(* category is [index |-> object code -> number, label |-> object code ->  *)
(* string]; a property that is not there is a field the record lacks.      *)
(***************************************************************************)
Has(obj, field) == field \in DOMAIN obj

Min(a, b) == IF a < b THEN a ELSE b

Quoted(strs) == [i \in 1..Len(strs) |-> "\"" \o strs[i] \o "\""]

\* IsExpression with only the wildcard skipped
IsExpressionStarOnly(value) == value = "*"

\* lines 746-751: the tokens the value check skips
IsExpression(value) ==
    \/ value = "*"
    \/ StartsWith(value, "TOP(")
    \/ StartsWith(value, "BOTTOM(")
    \/ StartsWith(value, "RANGE(")

\* CheckValue with the suggestion left out when no similar value is found
CheckValueSimilarOnly(acc, tableId, varCode, availableValues, value) ==
    IF Contains(availableValues, value) THEN acc
    ELSE LET IsSimilar(v) == Includes(ToLowerCase(v), ToLowerCase(value))
             found == SelectSeq(availableValues, IsSimilar)
             similarValues == SubSeq(found, 1, Min(3, Len(found)))
         IN  [errors |-> Append(acc.errors,
                  "Value \"" \o value \o "\" not found for variable \"" \o varCode \o "\""),
              suggestions |->
                  IF Len(similarValues) > 0
                  THEN Append(acc.suggestions, "For \"" \o varCode \o "\", did you mean: "
                                                 \o Join(similarValues, ", ") \o "?")
                  ELSE acc.suggestions]

\* lines 754-766: one value that is not an expression
CheckValue(acc, tableId, varCode, availableValues, value) ==
    IF Contains(availableValues, value) THEN acc
    ELSE LET IsSimilar(v) == Includes(ToLowerCase(v), ToLowerCase(value))
             found == SelectSeq(availableValues, IsSimilar)
             similarValues == SubSeq(found, 1, Min(3, Len(found)))
         IN  [errors |-> Append(acc.errors,
                  "Value \"" \o value \o "\" not found for variable \"" \o varCode \o "\""),
              suggestions |-> Append(acc.suggestions,
                  IF Len(similarValues) > 0
                  THEN "For \"" \o varCode \o "\", did you mean: "
                         \o Join(similarValues, ", ") \o "?"
                  ELSE "Use scb_get_table_variables with tableId=\"" \o tableId
                         \o "\" and variableName=\"" \o varCode \o "\" to see all values")]

\* lines 746-768: the loop over the values of one variable
RECURSIVE CheckValues(_, _, _, _, _)
CheckValues(acc, tableId, varCode, availableValues, values) ==
    IF Len(values) = 0 THEN acc
    ELSE CheckValues(IF IsExpression(values[1]) THEN acc
                     ELSE CheckValue(acc, tableId, varCode, availableValues, values[1]),
                     tableId, varCode, availableValues, Tail(values))

\* CheckUnknownVariable looking for the key in the codes only, not the labels
CheckUnknownVariableCodesOnly(acc, dimension, varCode) ==
    LET availableVariables == Keys(dimension)
        IsSimilar(v) == Includes(ToLowerCase(v), ToLowerCase(varCode))
        similar == SelectSeq(availableVariables, IsSimilar)
    IN  [errors |-> Append(acc.errors, "Variable \"" \o varCode \o "\" not found in table"),
         suggestions |-> Append(acc.suggestions,
             IF Len(similar) > 0
             THEN "Did you mean: " \o Join(Quoted(similar), ", ") \o "?"
             ELSE "Available variables: " \o Join(availableVariables, ", "))]

\* lines 725-740: a key that is no dimension of the table
CheckUnknownVariable(acc, dimension, varCode) ==
    LET availableVariables == Keys(dimension)
        IsSimilar(v) ==
            \/ Includes(ToLowerCase(v), ToLowerCase(varCode))
            \/ Includes(ToLowerCase(Get(dimension, v).label), ToLowerCase(varCode))
        similar == SelectSeq(availableVariables, IsSimilar)
    IN  [errors |-> Append(acc.errors, "Variable \"" \o varCode \o "\" not found in table"),
         suggestions |-> Append(acc.suggestions,
             IF Len(similar) > 0
             THEN "Did you mean: " \o Join(Quoted(similar), ", ") \o "?"
             ELSE "Available variables: " \o Join(availableVariables, ", "))]

\* lines 723-769: the loop over the entries of the translated selection
RECURSIVE CheckVariables(_, _, _, _)
CheckVariables(acc, tableId, dimension, entries) ==
    IF Len(entries) = 0 THEN acc
    ELSE LET varCode == entries[1].key
             values == entries[1].val
         IN  CheckVariables(
                 IF ~Contains(Keys(dimension), varCode)
                 THEN CheckUnknownVariable(acc, dimension, varCode)
                 ELSE CheckValues(acc, tableId, varCode,
                                  Keys(Get(dimension, varCode).category.index), values),
                 tableId, dimension, Tail(entries))

\* CheckMissing with only the first missing dimension reported
CheckMissingFirstOnly(dimension, translatedSelection) ==
    LET selectedVariables == Keys(translatedSelection)
        IsMissing(varName) == ~Contains(selectedVariables, varName)
        missingVariables == SelectSeq(Keys(dimension), IsMissing)
    IN  IF Len(missingVariables) > 0
        THEN [errors |-> << "Missing mandatory variables: " \o missingVariables[1] >>,
              suggestions |->
                << "SCB tables require all dimensions to be specified. Add these variables to your selection: "
                     \o missingVariables[1],
                   "Use \"*\" as value to select all values for a dimension, e.g. {\""
                     \o missingVariables[1] \o "\": [\"*\"]}" >>]
        ELSE [errors |-> <<>>, suggestions |-> <<>>]

\* lines 713-720: the dimensions of the table the selection leaves out
CheckMissing(dimension, translatedSelection) ==
    LET selectedVariables == Keys(translatedSelection)
        IsMissing(varName) == ~Contains(selectedVariables, varName)
        missingVariables == SelectSeq(Keys(dimension), IsMissing)
    IN  IF Len(missingVariables) > 0
        THEN [errors |-> << "Missing mandatory variables: " \o Join(missingVariables, ", ") >>,
              suggestions |->
                << "SCB tables require all dimensions to be specified. Add these variables to your selection: "
                     \o Join(missingVariables, ", "),
                   "Use \"*\" as value to select all values for a dimension, e.g. {\""
                     \o missingVariables[1] \o "\": [\"*\"]}" >>]
        ELSE [errors |-> <<>>, suggestions |-> <<>>]

\* ValidateAgainst with the translated selection returned only when valid
ValidateAgainstValidOnly(tableId, metadata, translatedSelection) ==
    IF ~Has(metadata, "dimension")
    THEN [isValid |-> FALSE,
          errors |-> << "Table metadata not available for validation" >>,
          suggestions |-> << "Try using scb_get_table_info first" >>]
    ELSE LET checked == CheckVariables(CheckMissing(metadata.dimension, translatedSelection),
                                       tableId, metadata.dimension, translatedSelection)
         IN  IF Len(checked.errors) = 0
             THEN [isValid |-> TRUE, errors |-> <<>>, suggestions |-> checked.suggestions,
                   translatedSelection |-> translatedSelection]
             ELSE [isValid |-> FALSE, errors |-> checked.errors,
                   suggestions |-> checked.suggestions]

\* lines 699-776: the result once getTableMetadata returned metadata
ValidateAgainst(tableId, metadata, translatedSelection) ==
    IF ~Has(metadata, "dimension")
    THEN [isValid |-> FALSE,
          errors |-> << "Table metadata not available for validation" >>,
          suggestions |-> << "Try using scb_get_table_info first" >>]
    ELSE LET checked == CheckVariables(CheckMissing(metadata.dimension, translatedSelection),
                                       tableId, metadata.dimension, translatedSelection)
         IN  [isValid |-> Len(checked.errors) = 0,
              errors |-> checked.errors,
              suggestions |-> checked.suggestions,
              translatedSelection |-> translatedSelection]

\* lines 778-784: the catch block, given the message of the error caught
ValidationFailed(message) ==
    [isValid |-> FALSE,
     errors |-> << "Validation failed: " \o message >>,
     suggestions |-> << "Try checking if the table ID is correct with scb_get_table_info" >>]

(***************************************************************************)
(* The rate limiter (lines 404-477).  rateLimitInfo is <<>> for null and   *)
(* <<info>> otherwise.                                                     *)
(***************************************************************************)
DefaultMaxCalls == 30

DefaultTimeWindow == 10

DefaultWindowMs == 10000

MsPerSecond == 1000

\* Math.ceil(a / b) for a >= 0, b > 0
CeilDiv(a, b) == (a + b - 1) \div b

\* FallbackInfo with the two numbers the wrong way round
FallbackInfoSwapped(now) ==
    [remaining |-> DefaultTimeWindow,
     resetTime |-> now + DefaultWindowMs,
     maxCalls |-> DefaultTimeWindow,
     timeWindow |-> DefaultMaxCalls]

\* lines 428-433 and 449-454
FallbackInfo(now) ==
    [remaining |-> DefaultMaxCalls,
     resetTime |-> now + DefaultWindowMs,
     maxCalls |-> DefaultMaxCalls,
     timeWindow |-> DefaultTimeWindow]

\* lines 440-445
ConfigInfo(config, now) ==
    [remaining |-> config.maxCallsPerTimeWindow,
     resetTime |-> now + config.timeWindow * MsPerSecond,
     maxCalls |-> config.maxCallsPerTimeWindow,
     timeWindow |-> config.timeWindow]

\* line 466
WindowElapsed(info, now) == now >= info.resetTime

\* lines 466-471: the window after the reset step
ResetInfo(info, now) ==
    IF WindowElapsed(info, now)
    THEN [info EXCEPT !.resetTime = now + info.timeWindow * MsPerSecond,
                      !.remaining = info.maxCalls]
    ELSE info

\* Exhausted with > for >=
ExhaustedOffByOne(count, info) == count > info.maxCalls

\* line 473
Exhausted(count, info) == count >= info.maxCalls

\* RateLimitMessage with the whole window for the time that is left of it
RateLimitMessageFullWindow(waitTime, count, info) ==
    "Rate limit exceeded. Try again in " \o ToString(info.timeWindow)
      \o " seconds. Current usage: " \o ToString(count) \o "/" \o ToString(info.maxCalls)

\* line 475
RateLimitMessage(waitTime, count, info) ==
    "Rate limit exceeded. Try again in " \o ToString(CeilDiv(waitTime, MsPerSecond))
      \o " seconds. Current usage: " \o ToString(count) \o "/" \o ToString(info.maxCalls)

\* lines 490-493 and 832-835
RecordedInfo(info, count) ==
    [info EXCEPT !.remaining = IF info.maxCalls - count > 0 THEN info.maxCalls - count ELSE 0]

(***************************************************************************)
(* What fetch can answer.  A response is [type, status, statusText,        *)
(* contentType, text, body]: type "throw" is a rejected fetch, body is     *)
(* <<>> when the text is no JSON and <<value>> when it parses to value.    *)
(***************************************************************************)
Resp(type, status, statusText, contentType, text, body) ==
    [type |-> type, status |-> status, statusText |-> statusText,
     contentType |-> contentType, text |-> text, body |-> body]

JsonResp(value) == Resp("response", 200, "OK", "application/json", "{}", <<value>>)

NetworkError == Resp("throw", 0, "", "", "", <<>>)

TableId == "TAB1"

Category(codes, names) ==
    [index |-> [i \in 1..Len(codes) |-> KV(codes[i], i - 1)],
     label |-> [i \in 1..Len(codes) |-> KV(codes[i], names[i])]]

\* the table the server holds: two dimensions
TableMetadata ==
    [label |-> "Population by region and year",
     dimension |->
       << KV("Region", [label |-> "region",
                        category |-> Category(<<"1484", "0180">>, <<"Lerum", "Stockholm">>)]),
          KV("Tid",    [label |-> "year",
                        category |-> Category(<<"2023", "2024">>, <<"2023", "2024">>)]) >>]

\* a dataset whose dimension map is empty
EmptyMetadata == [label |-> "Empty", dimension |-> <<>>]

\* a JSON body that is no Dataset: it has no dimension
NotADataset == [label |-> "No dimensions"]

\* DatasetSchema.parse (types.ts 103-135) as far as the model's bodies go:
\* dimension is required
DatasetParses(body) == Has(body, "dimension")

\* ConfigResponseSchema.parse (types.ts 4-27) as far as the model's bodies go
ConfigParses(body) == Has(body, "maxCallsPerTimeWindow") /\ Has(body, "timeWindow")

ResponseOk(resp) == resp.status >= 200 /\ resp.status <= 299

\* the answers to GET /tables/{id}/metadata and GET /tables/{id}/data
GetResponses ==
    { NetworkError,
      Resp("response", 429, "Too Many Requests", "text/plain", "slow down", <<>>),
      Resp("response", 500, "Internal Server Error", "text/html", "<html>oops</html>", <<>>),
      Resp("response", 404, "Not Found", "text/plain", "no such table", <<>>),
      Resp("response", 200, "OK", "text/html", "<html>hello</html>", <<>>),
      Resp("response", 200, "OK", "application/json", "{", <<>>),
      JsonResp(NotADataset), JsonResp(EmptyMetadata), JsonResp(TableMetadata) }

\* the answers to POST /tables/{id}/data
PostResponses ==
    { NetworkError,
      Resp("response", 429, "Too Many Requests", "text/plain", "slow down", <<>>),
      Resp("response", 403, "Forbidden", "text/plain", "too many cells", <<>>),
      Resp("response", 400, "Bad Request", "text/plain", "Unknown variableCode", <<>>),
      Resp("response", 500, "Internal Server Error", "text/plain", "oops", <<>>),
      Resp("response", 200, "OK", "application/json", "{", <<>>),
      JsonResp(NotADataset), JsonResp(TableMetadata) }

\* the answers to GET /config: [maxCallsPerTimeWindow, timeWindow] are the
\* limits the server advertises, positive whole numbers
ConfigResponses ==
    { NetworkError,
      Resp("response", 503, "Service Unavailable", "text/plain", "down", <<>>),
      Resp("response", 200, "OK", "application/json", "{", <<>>),
      JsonResp([apiVersion |-> "2.0"]),
      JsonResp([maxCallsPerTimeWindow |-> 1, timeWindow |-> 5]),
      JsonResp([maxCallsPerTimeWindow |-> 2, timeWindow |-> 5]) }

\* the selections the callers of this client pass
ClientSelections ==
    { <<>>,
      << KV("region", <<"1484">>), KV("year", <<"2024">>) >>,
      << KV("region", <<"9999">>) >> }

(***************************************************************************)
(* Errors thrown after a response arrived.                                 *)
(***************************************************************************)
FetchFailedMessage == "fetch failed"

InvalidJsonMessage == "Unexpected end of JSON input"

SchemaErrorMessage == "ZodError: Required"

\* text.substring(0, n)
Substring(text, n) == SubSeq(text, 1, Min(n, Len(text)))

\* makeRequest, lines 495-523: <<>> when the request returns, else the message
MakeRequestError(resp) ==
    IF ~ResponseOk(resp)
    THEN IF resp.status = 429
         THEN << "Rate limit exceeded (429). Wait and try again." >>
         ELSE << "API request failed: " \o ToString(resp.status) \o " " \o resp.statusText
                   \o (IF Includes(resp.text, "<!DOCTYPE html") \/ Includes(resp.text, "<html")
                       THEN " (Server returned HTML error page)"
                       ELSE ": " \o Substring(resp.text, 100)) >>
    ELSE IF ~Includes(resp.contentType, "application/json")
    THEN << "Expected JSON response but got " \o resp.contentType \o ". Response: "
              \o Substring(resp.text, 100) \o "..." >>
    ELSE IF resp.body = <<>> THEN << InvalidJsonMessage >>
    ELSE IF ~DatasetParses(resp.body[1]) THEN << SchemaErrorMessage >>
    ELSE <<>>

\* the source's bullet character is written "-" here
Bulleted(tips) == [i \in 1..Len(tips) |-> "- " \o tips[i]]

\* getTableData, lines 844-890: the message of a 400
BadRequestMessage(text) ==
    LET lower == ToLowerCase(text)
        found == IF Includes(lower, "variable") \/ Includes(lower, "variablecode")
                 THEN << "Invalid variable name or code in selection",
                         << "Use scb_get_table_variables to see all available variable names",
                            "Check that variable names match exactly (case-sensitive)",
                            "Try scb_test_selection to validate your selection first" >> >>
                 ELSE IF Includes(lower, "value") \/ Includes(lower, "valuecode")
                 THEN << "Invalid variable values in selection",
                         << "Use scb_get_table_variables with variableName to see valid values",
                            "For time data, try formats like \"2024\" or \"2024M12\" for monthly",
                            "For regions, verify codes with scb_find_region_code" >> >>
                 ELSE IF Includes(lower, "selection")
                 THEN << "Invalid selection format or syntax",
                         << "Use format: {\"VariableName\": [\"value1\", \"value2\"]}",
                            "Ensure variable names use proper case (e.g., \"Region\", not \"region\")",
                            "Test your selection with scb_test_selection first" >> >>
                 ELSE IF Includes(lower, "time") \/ Includes(lower, "date")
                 THEN << "Invalid time/date format in selection",
                         << "For annual data, use \"2024\"",
                            "For monthly data, use \"2024M12\" format",
                            "Check available time values with scb_get_table_variables" >> >>
                 ELSE << "Bad request (400): " \o Substring(text, 150),
                         << "Use scb_test_selection to validate your selection",
                            "Check variable names and values with scb_get_table_variables" >> >>
    IN  found[1] \o "\n\nTroubleshooting suggestions:\n" \o Join(Bulleted(found[2]), "\n")

\* getTableData, lines 837-896: <<>> when the POST returns, else the message
PostError(resp, info) ==
    IF ~ResponseOk(resp)
    THEN IF resp.status = 429
         THEN << "Rate limit exceeded (429). Wait and try again." >>
         ELSE IF resp.status = 403
         THEN << "Request forbidden (403). The query may result in too many data cells (limit: "
                   \o (IF info # <<>> THEN ToString(info[1].maxCalls) ELSE "unknown")
                   \o "). Try using more specific selections." >>
         ELSE IF resp.status = 400
         THEN << BadRequestMessage(resp.text) >>
         ELSE << "API request failed: " \o ToString(resp.status) \o " " \o resp.statusText >>
    ELSE IF resp.body = <<>> THEN << InvalidJsonMessage >>
    ELSE IF ~DatasetParses(resp.body[1]) THEN << SchemaErrorMessage >>
    ELSE <<>>

\* getTableData, lines 801-803
SelectionErrorMessage(validation) ==
    "Selection validation failed:\n" \o Join(validation.errors, "\n")
      \o (IF Len(validation.suggestions) > 0
          THEN "\n\nSuggestions:\n" \o Join(validation.suggestions, "\n")
          ELSE "")

\* getTableData, lines 807-817: the body of the POST
SelectionArray(validation, selection) ==
    LET finalSelection == IF Has(validation, "translatedSelection")
                          THEN validation.translatedSelection
                          ELSE selection
    IN  [i \in 1..Len(finalSelection) |->
            [variableCode |-> finalSelection[i].key, valueCodes |-> finalSelection[i].val]]

(***************************************************************************)
(* The client.  Calls are the calls on one SCBApiClient that can be in     *)
(* flight together; each runs from await to await, and between two awaits  *)
(* JavaScript runs it without interruption.                                *)
(***************************************************************************)
MaxTicks == 2

\* the clock moves in steps of five seconds
TickLengths == { 5000 }

Calls == { "a", "b" }

VARIABLES
    rateLimitInfo,      \* this.rateLimitInfo: <<>> (null) or <<info>>
    requestCount,       \* this.requestCount
    windowStartTime,    \* this.windowStartTime
    clock,              \* what Date.now() returns
    calls,              \* per call: where it is and its locals
    configFetches,      \* how many GET /config were dispatched
    input,              \* the arguments of the function a specification of a
                        \* function applies, and
    output              \* <<>> or <<its result>>

client == << rateLimitInfo, requestCount, windowStartTime, clock, calls, configFetches >>

vars == << rateLimitInfo, requestCount, windowStartTime, clock, calls, configFetches,
           input, output >>

NoOutcome == [kind |-> "none", message |-> "", value |-> <<>>]

\* pc: idle, check (in checkRateLimit), init (awaiting in
\* initializeRateLimit), fetch (awaiting the API call), done.
\* validation is <<>> until getTableData has its validation; sent lists the
\* API calls this call dispatched; response is <<>> or <<what the fetch the
\* call awaited last settled with>>, until the next checkRateLimit; before
\* is << what getUsageInfo showed to the caller before the call >>, if read.
IdleCall ==
    [pc |-> "idle", op |-> "none", selection |-> <<>>, validation |-> <<>>,
     sent |-> <<>>, response |-> <<>>, outcome |-> NoOutcome,
     before |-> <<>>]

Returned(call, value) ==
    [call EXCEPT !.pc = "done",
                 !.outcome = [kind |-> "returned", message |-> "", value |-> <<value>>]]

Threw(call, message) ==
    [call EXCEPT !.pc = "done",
                 !.outcome = [kind |-> "threw", message |-> message, value |-> <<>>]]

\* AfterValidation without the test of isValid
AfterValidationUnchecked(call, validation) ==
    [call EXCEPT !.validation = <<validation>>, !.pc = "check"]

\* getTableData, lines 799-812, once validateSelection returned
AfterValidation(call, validation) ==
    IF ~validation.isValid
    THEN Threw(call, SelectionErrorMessage(validation))
    ELSE [call EXCEPT !.validation = <<validation>>, !.pc = "check"]

\* what getTableMetadata gave validateSelection
MetadataThrew(message) == [kind |-> "threw", message |-> message, value |-> <<>>]

MetadataReturned(dataset) == [kind |-> "returned", message |-> "", value |-> <<dataset>>]

\* validateSelection, lines 679-785, as a function of its selection and of
\* what getTableMetadata gave it
ValidateSelection(selection, fetched) ==
    IF fetched.kind = "threw"
    THEN ValidationFailed(fetched.message)
    ELSE ValidateAgainst(TableId, fetched.value[1], ResolveSelection(selection))

\* validateSelection, lines 778-784: what becomes of an error thrown below it
CaughtByValidation(call, message) ==
    Returned(call, ValidateSelection(call.selection, MetadataThrew(message)))

\* Raise with validateSelection letting the error through
RaiseUncaught(call, message) ==
    IF call.op = "data" /\ call.validation = <<>>
    THEN AfterValidation(call, CaughtByValidation(call, message).outcome.value[1])
    ELSE Threw(call, message)

\* an error thrown by checkRateLimit, fetch or makeRequest, seen from the
\* operation that runs
Raise(call, message) ==
    IF call.op = "validate" THEN CaughtByValidation(call, message)
    ELSE IF call.op = "data" /\ call.validation = <<>>
    THEN AfterValidation(call, CaughtByValidation(call, message).outcome.value[1])
    ELSE Threw(call, message)

\* validateSelection, lines 686-776, with the metadata it fetched
ValidationOf(call, dataset) ==
    ValidateSelection(call.selection, MetadataReturned(dataset))

\* a GET that returned its parsed dataset
GotDataset(call, dataset) ==
    IF call.op = "validate" THEN Returned(call, ValidationOf(call, dataset))
    ELSE IF call.op = "data" /\ call.validation = <<>>
    THEN AfterValidation(call, ValidationOf(call, dataset))
    ELSE Returned(call, dataset)

IsPostStage(call) == call.op = "data" /\ call.validation # <<>>

\* the request a call dispatches when checkRateLimit let it pass
NextRequest(call) ==
    IF IsPostStage(call)
    THEN [method |-> "POST", endpoint |-> "data",
          body |-> SelectionArray(call.validation[1], call.selection)]
    ELSE IF call.op = "dataDefault"
    THEN [method |-> "GET", endpoint |-> "data", body |-> <<>>]
    ELSE [method |-> "GET", endpoint |-> "metadata", body |-> <<>>]

Init ==
    /\ rateLimitInfo = <<>>
    /\ requestCount = 0
    /\ windowStartTime = 0
    /\ clock = 0
    /\ calls = [c \in Calls |-> IdleCall]
    /\ configFetches = 0
    /\ input = <<>>
    /\ output = <<>>

\* getUsageInfo lines 1010-1016: the three fields as they are, nothing written
getUsageInfo ==
    [requestCount |-> requestCount, windowStartTime |-> windowStartTime,
     rateLimitInfo |-> rateLimitInfo]

\* a caller starts getTableMetadata ("request"), validateSelection,
\* getTableData with a selection ("data") or without ("dataDefault");
\* observed is << getUsageInfo >> when the caller read the usage first
Start(c, ops, selections, observed) ==
    /\ calls[c].pc = "idle"
    /\ \E op \in ops :
         \E sel \in (IF op \in {"validate", "data"} THEN selections ELSE {<<>>}) :
            calls' = [calls EXCEPT ![c] =
                         [IdleCall EXCEPT !.pc = "check", !.op = op, !.selection = sel,
                                          !.before = observed]]
    /\ UNCHANGED << rateLimitInfo, requestCount, windowStartTime, clock, configFetches,
                    input, output >>

\* checkRateLimit lines 459-460 and initializeRateLimit lines 413-423: no
\* window yet, the config fetch goes out
InitializeRateLimit(c) ==
    /\ calls[c].pc = "check"
    /\ rateLimitInfo = <<>>
    /\ configFetches' = configFetches + 1
    /\ calls' = [calls EXCEPT ![c].pc = "init"]
    /\ UNCHANGED << rateLimitInfo, requestCount, windowStartTime, clock, input, output >>

\* initializeRateLimit lines 425-455, with the answer to the config fetch
InitializedInfo(resp, now) ==
    IF /\ resp.type # "throw"
       /\ ResponseOk(resp)
       /\ resp.body # <<>>
       /\ ConfigParses(resp.body[1])
    THEN ConfigInfo(resp.body[1], now)
    ELSE FallbackInfo(now)

\* initializeRateLimit lines 418-455: the config fetch settles and the
\* window is set (nothing of the client is read or written between the
\* response and the end of response.json())
ConfigResponse(c, responses) ==
    /\ calls[c].pc = "init"
    /\ \E resp \in responses :
         /\ rateLimitInfo' = << InitializedInfo(resp, clock) >>
         /\ calls' = [calls EXCEPT ![c].pc = "check", ![c].response = << resp >>]
    /\ UNCHANGED << requestCount, windowStartTime, clock, configFetches, input, output >>

\* checkRateLimit lines 463-476, and the dispatch of the fetch that follows
\* it in makeRequest (483) and getTableData (820)
CheckRateLimit(c) ==
    /\ calls[c].pc = "check"
    /\ rateLimitInfo # <<>>
    /\ LET now == clock
           elapsed == WindowElapsed(rateLimitInfo[1], now)
           info == ResetInfo(rateLimitInfo[1], now)
           count == IF elapsed THEN 0 ELSE requestCount
           waitTime == info.resetTime - now
       IN  /\ rateLimitInfo' = << info >>
           /\ requestCount' = count
           /\ windowStartTime' = IF elapsed THEN now ELSE windowStartTime
           /\ calls' = [calls EXCEPT ![c] =
                          IF Exhausted(count, info)
                          THEN Raise([@ EXCEPT !.response = <<>>],
                                     RateLimitMessage(waitTime, count, info))
                          ELSE [@ EXCEPT !.pc = "fetch",
                                         !.response = <<>>,
                                         !.sent = Append(@, NextRequest(calls[c]))]]
    /\ UNCHANGED << clock, configFetches, input, output >>

\* RecordCall counting an answered request twice
RecordCallTwice(count) == count + 2

\* lines 490-493 and 832-835
RecordCall(count) == count + 1

\* makeRequest lines 483-523 and getTableData lines 820-896: the API call
\* settles
Response(c, gets, posts) ==
    /\ calls[c].pc = "fetch"
    /\ \E resp \in (IF IsPostStage(calls[c]) THEN posts ELSE gets) :
         IF resp.type = "throw"
         THEN /\ calls' = [calls EXCEPT ![c] =
                             Raise([@ EXCEPT !.response = << resp >>], FetchFailedMessage)]
              /\ UNCHANGED << rateLimitInfo, requestCount >>
         ELSE /\ requestCount' = RecordCall(requestCount)
              /\ rateLimitInfo' = IF rateLimitInfo # <<>>
                                  THEN << RecordedInfo(rateLimitInfo[1], requestCount') >>
                                  ELSE rateLimitInfo
              /\ LET error == IF IsPostStage(calls[c])
                              THEN PostError(resp, rateLimitInfo')
                              ELSE MakeRequestError(resp)
                     settled == [calls[c] EXCEPT !.response = << resp >>]
                 IN  calls' = [calls EXCEPT ![c] =
                                  IF error # <<>> THEN Raise(settled, error[1])
                                  ELSE IF IsPostStage(calls[c]) THEN Returned(settled, resp.body[1])
                                  ELSE GotDataset(settled, resp.body[1])]
    /\ UNCHANGED << windowStartTime, clock, configFetches, input, output >>

\* the caller takes the result; the slot is free for the next call
Return(c) ==
    /\ calls[c].pc = "done"
    /\ calls' = [calls EXCEPT ![c] = IdleCall]
    /\ UNCHANGED << rateLimitInfo, requestCount, windowStartTime, clock, configFetches,
                    input, output >>

\* Tick with a timer that empties the count when the window ends
TickResetting ==
    /\ \E d \in TickLengths :
         /\ clock + d <= MaxTicks * d
         /\ clock' = clock + d
    /\ requestCount' = IF rateLimitInfo = <<>> THEN requestCount
                       ELSE IF WindowElapsed(rateLimitInfo[1], clock') THEN 0
                       ELSE requestCount
    /\ UNCHANGED << rateLimitInfo, windowStartTime, calls, configFetches, input, output >>

\* time passes
Tick ==
    /\ \E d \in TickLengths :
         /\ clock + d <= MaxTicks * d
         /\ clock' = clock + d
    /\ UNCHANGED << rateLimitInfo, requestCount, windowStartTime, calls, configFetches,
                    input, output >>

AllOps == {"request", "validate", "data", "dataDefault"}

NoneInFlight == \A c \in Calls : calls[c].pc = "idle"

\* the client used by one coordinating flow: a call starts only when no
\* other is in flight
Next ==
    \/ \E c \in Calls :
         \/ NoneInFlight /\ Start(c, AllOps, ClientSelections, << getUsageInfo >>)
         \/ InitializeRateLimit(c)
         \/ ConfigResponse(c, ConfigResponses)
         \/ CheckRateLimit(c)
         \/ Response(c, GetResponses, PostResponses)
         \/ Return(c)
    \/ Tick

Spec == Init /\ [][Next]_vars

\* the client called from several flows at once: the calls interleave at
\* their awaits.  The callers and the server are the ones of Spec, with
\* fewer different selections and answers.
ConcurrentOps == {"request", "data"}

ConcurrentSelections == { << KV("region", <<"1484">>), KV("year", <<"2024">>) >> }

ConcurrentGets == { NetworkError, JsonResp(TableMetadata) }

ConcurrentPosts == { Resp("response", 429, "Too Many Requests", "text/plain", "slow down", <<>>),
                     JsonResp(TableMetadata) }

ConcurrentConfigs == { NetworkError,
                       JsonResp([maxCallsPerTimeWindow |-> 1, timeWindow |-> 5]),
                       JsonResp([maxCallsPerTimeWindow |-> 2, timeWindow |-> 5]) }

NextConcurrent ==
    \/ \E c \in Calls :
         \/ Start(c, ConcurrentOps, ConcurrentSelections, <<>>)
         \/ InitializeRateLimit(c)
         \/ ConfigResponse(c, ConcurrentConfigs)
         \/ CheckRateLimit(c)
         \/ Response(c, ConcurrentGets, ConcurrentPosts)
         \/ Return(c)
    \/ Tick

SpecConcurrent == Init /\ [][NextConcurrent]_vars

(***************************************************************************)
(* validateSelection as a function: Init draws a selection and what        *)
(* getTableMetadata gives, Validate applies validateSelection to them.     *)
(***************************************************************************)
MaxSelectionKeys == 2

\* a table with one dimension
SexMetadata ==
    [label |-> "Population by sex",
     dimension |->
       << KV("Kon", [label |-> "sex",
                     category |-> Category(<<"1", "2", "tot">>, <<"men", "women", "total">>)]) >>]

SelectionKeys == { "region", "Region", "Tid", "sex", "yea", "foo" }

SelectionValues ==
    { <<"1484">>, <<"*">>, <<"TOP(2)", "18">>, <<"2024", "male">>, <<"all", "2024-05">>,
      <<"BOTTOM(3)", "RANGE(2020,2024)", "top(2)">> }

SelectionEntries == { KV(k, v) : k \in SelectionKeys, v \in SelectionValues }

\* the objects with at most n of these entries: the keys of an object differ
RECURSIVE SelectionsUpTo(_)
SelectionsUpTo(n) ==
    IF n = 0 THEN { <<>> }
    ELSE LET shorter == SelectionsUpTo(n - 1)
         IN  shorter \cup { Append(sel, e) : sel \in { t \in shorter : Len(t) = n - 1 },
                                             e \in SelectionEntries }

DistinctKeys(sel) == \A i, j \in 1..Len(sel) : sel[i].key = sel[j].key => i = j

ValidatorSelections == { sel \in SelectionsUpTo(MaxSelectionKeys) : DistinctKeys(sel) }

\* what getTableMetadata can give: the errors of checkRateLimit, of fetch
\* and of makeRequest, and the datasets that parse
ValidatorGets == GetResponses \cup { JsonResp(SexMetadata) }

MetadataOutcomes ==
    { MetadataThrew(FetchFailedMessage),
      MetadataThrew(RateLimitMessage(5000, 1, [maxCalls |-> 1])) }
    \cup { MetadataThrew(MakeRequestError(r)[1]) :
             r \in { q \in ValidatorGets : q.type # "throw" /\ MakeRequestError(q) # <<>> } }
    \cup { MetadataReturned(r.body[1]) :
             r \in { q \in ValidatorGets : q.type # "throw" /\ MakeRequestError(q) = <<>> } }

InitValidate ==
    /\ rateLimitInfo = <<>>
    /\ requestCount = 0
    /\ windowStartTime = 0
    /\ clock = 0
    /\ calls = [c \in Calls |-> IdleCall]
    /\ configFetches = 0
    /\ input \in { << sel, fetched >> : sel \in ValidatorSelections, fetched \in MetadataOutcomes }
    /\ output = <<>>

Validate ==
    /\ output = <<>>
    /\ output' = << ValidateSelection(input[1], input[2]) >>
    /\ UNCHANGED << client, input >>

NextValidate == Validate

SpecValidate == InitValidate /\ [][NextValidate]_vars

(***************************************************************************)
(* The decoder: transformToStructuredData (lines 902-985).  A null of the  *)
(* value array is <<>>, a number n is <<n>>; undefined is the string the   *)
(* property lookup turns it into.                                          *)
(***************************************************************************)
MaxDims == 3

MaxValues == 12

Undefined == "undefined"

NaN == -1

DigitValue(ch) == (CHOOSE i \in 1..Len(Digits) : CharAt(Digits, i) = ch) - 1

RECURSIVE ToNumber(_)
ToNumber(s) ==
    IF Len(s) = 0 THEN 0
    ELSE 10 * ToNumber(SubSeq(s, 1, Len(s) - 1)) + DigitValue(CharAt(s, Len(s)))

\* a property name that is an array index: a canonical numeric string
IsArrayIndex(s) ==
    /\ Len(s) >= 1
    /\ Len(s) <= 9
    /\ AllDigits(s)
    /\ (Len(s) = 1 \/ CharAt(s, 1) # "0")

\* the members with array-index names, in ascending order of the index
RECURSIVE Ascending(_)
Ascending(members) ==
    IF Len(members) = 0 THEN <<>>
    ELSE LET least == CHOOSE i \in 1..Len(members) :
                         \A j \in 1..Len(members) :
                            ToNumber(members[i].key) <= ToNumber(members[j].key)
             Others(m) == m.key # members[least].key
         IN  << members[least] >> \o Ascending(SelectSeq(members, Others))

\* the object JSON.parse builds from the members of a JSON object, in the
\* order Object.keys and Object.entries enumerate it: array-index names
\* first, ascending, then the other names in the order of the document
JsonObject(members) ==
    LET IsIndex(m) == IsArrayIndex(m.key)
        IsName(m) == ~IsArrayIndex(m.key)
    IN  Ascending(SelectSeq(members, IsIndex)) \o SelectSeq(members, IsName)

\* temp % dimSize
JsMod(temp, dimSize) == IF temp = NaN \/ dimSize = 0 THEN NaN ELSE temp % dimSize

\* JsFloorDiv with the division forgotten
JsFloorDivKept(temp, dimSize) == IF temp = NaN \/ dimSize = 0 THEN NaN ELSE temp

\* Math.floor(temp / dimSize): flat indices are never negative, and x / 0
\* is Infinity for x > 0, whose remainders are NaN like those of NaN
JsFloorDiv(temp, dimSize) == IF temp = NaN \/ dimSize = 0 THEN NaN ELSE temp \div dimSize

\* lines 990-1004
nameMapping ==
    << KV("Region", "region"), KV("Alder", "age"), KV("Kon", "sex"), KV("Tid", "year"),
       KV("UtbildningsNiva", "education_level"), KV("ContentsCode", "observation_type"),
       KV("Sysselsattning", "employment_status"), KV("Civilstand", "marital_status"),
       KV("Familjetyp", "family_type") >>

getDimensionBaseName(dimName) ==
    IF HasKey(nameMapping, dimName) THEN Get(nameMapping, dimName) ELSE ToLowerCase(dimName)

\* line 924
DimensionSizes(dimensions) ==
    [i \in 1..Len(dimensions) |-> Len(Keys(dimensions[i].val.category.index))]

\* lines 934-950: the loop over the dimensions, from the last to the first
RECURSIVE DecodeRecord(_, _, _, _)
DecodeRecord(dimensions, i, temp, record) ==
    IF i = 0 THEN record
    ELSE LET dimName == dimensions[i].key
             dimDef == dimensions[i].val
             dimSize == DimensionSizes(dimensions)[i]
             dimIndex == JsMod(temp, dimSize)
             codes == Keys(dimDef.category.index)
             code == IF dimIndex = NaN THEN Undefined ELSE codes[dimIndex + 1]
             label == IF HasKey(dimDef.category.label, code)
                      THEN Get(dimDef.category.label, code)
                      ELSE Undefined
             name == IF label # Undefined /\ label # "" THEN label ELSE code
             baseName == getDimensionBaseName(dimName)
         IN  DecodeRecord(dimensions, i - 1, JsFloorDiv(temp, dimSize),
                          Put(Put(record, baseName \o "_code", code),
                              baseName \o "_name", name))

\* DecodeFrom with the test !value for value === null
RECURSIVE DecodeFromSkipFalsy(_, _, _)
DecodeFromSkipFalsy(dimensions, values, flatIndex) ==
    IF flatIndex >= Len(values) THEN <<>>
    ELSE LET value == values[flatIndex + 1]
             rest == DecodeFromSkipFalsy(dimensions, values, flatIndex + 1)
         IN  IF value = <<>> \/ value = << 0 >> THEN rest
             ELSE << Put(DecodeRecord(dimensions, Len(dimensions), flatIndex, <<>>),
                         "value", value[1]) >> \o rest

\* lines 927-953: the records of the values from flat index flatIndex on
RECURSIVE DecodeFrom(_, _, _)
DecodeFrom(dimensions, values, flatIndex) ==
    IF flatIndex >= Len(values) THEN <<>>
    ELSE LET value == values[flatIndex + 1]
             rest == DecodeFrom(dimensions, values, flatIndex + 1)
         IN  IF value = <<>> THEN rest
             ELSE << Put(DecodeRecord(dimensions, Len(dimensions), flatIndex, <<>>),
                         "value", value[1]) >> \o rest

RECURSIVE TotalValue(_)
TotalValue(records) ==
    IF Len(records) = 0 THEN 0
    ELSE Get(records[1], "value") + TotalValue(Tail(records))

\* lines 902-985: the records and the summary of the result
transformToStructuredData(jsonStat2Data) ==
    IF jsonStat2Data.value = <<>> \/ ~Has(jsonStat2Data, "dimension")
    THEN [data |-> <<>>, summary |-> [total_records |-> 0, has_data |-> FALSE]]
    ELSE LET records == DecodeFrom(jsonStat2Data.dimension, jsonStat2Data.value[1], 0)
         IN  [data |-> records,
              summary |-> [total_records |-> Len(records),
                           non_null_records |-> Len(records),
                           total_value |-> TotalValue(records),
                           has_data |-> Len(records) > 0]]

(***************************************************************************)
(* The decoder run on the payloads of a server: every list of at most      *)
(* MaxDims of the dimensions below, with a value array of at most          *)
(* MaxValues entries or with none.                                         *)
(***************************************************************************)
\* one dimension of a payload, from the members of its JSON objects
Dimension(name, label, index, labels) ==
    KV(name, [label |-> label,
              category |-> [index |-> JsonObject(index), label |-> JsonObject(labels)]])

\* municipality codes: the JSON lists 0180 first, and 1484 is an array index
RegionDimension ==
    Dimension("Region", "region",
              << KV("0180", 0), KV("1484", 1) >>,
              << KV("0180", "Stockholm"), KV("1484", "Lerum") >>)

TidDimension ==
    Dimension("Tid", "year",
              << KV("2023", 0), KV("2024", 1) >>,
              << KV("2023", "2023"), KV("2024", "2024") >>)

\* three codes, one with an empty label and one with none
KonDimension ==
    Dimension("Kon", "sex",
              << KV("1", 0), KV("2", 1), KV("tot", 2) >>,
              << KV("1", "men"), KV("2", "") >>)

\* a dimension getDimensionBaseName has no name for
CustomDimension ==
    Dimension("Hushallstyp", "household", << KV("ALLA", 0) >>, << KV("ALLA", "all") >>)

\* a dimension with no category
EmptyDimension == Dimension("Alder", "age", <<>>, <<>>)

\* a dimension whose code differs from Region in case only
LowerRegionDimension ==
    Dimension("region", "part of the country",
              << KV("N", 0), KV("S", 1) >>,
              << KV("N", "north"), KV("S", "south") >>)

PayloadDimensions ==
    { RegionDimension, TidDimension, KonDimension, CustomDimension, EmptyDimension,
      LowerRegionDimension }

RECURSIVE DimensionLists(_)
DimensionLists(n) ==
    IF n = 0 THEN { <<>> }
    ELSE LET shorter == DimensionLists(n - 1)
         IN  shorter \cup { Append(dims, d) : dims \in { t \in shorter : Len(t) = n - 1 },
                                              d \in PayloadDimensions }

\* which entries of a value array are null
NullPatterns == { "none", "all", "odd", "second" }

IsNullAt(pattern, flatIndex) ==
    \/ pattern = "all"
    \/ pattern = "odd" /\ flatIndex % 2 = 1
    \/ pattern = "second" /\ flatIndex = 1

\* the entry at flat index f is null or the number 10 * f
ValueArray(length, pattern) ==
    [i \in 1..length |-> IF IsNullAt(pattern, i - 1) THEN <<>> ELSE << 10 * (i - 1) >>]

Payload(dimensions, value) ==
    [label |-> "Payload", dimension |-> dimensions, value |-> value]

Payloads ==
    { Payload(dims, value) :
        dims \in { d \in DimensionLists(MaxDims) : DistinctKeys(d) },
        value \in { <<>> } \cup { << ValueArray(n, pattern) >> :
                                    n \in 0..MaxValues, pattern \in NullPatterns } }

InitDecode ==
    /\ rateLimitInfo = <<>>
    /\ requestCount = 0
    /\ windowStartTime = 0
    /\ clock = 0
    /\ calls = [c \in Calls |-> IdleCall]
    /\ configFetches = 0
    /\ input \in Payloads
    /\ output = <<>>

Decode ==
    /\ output = <<>>
    /\ output' = << transformToStructuredData(input) >>
    /\ UNCHANGED << client, input >>

NextDecode == Decode

SpecDecode == InitDecode /\ [][NextDecode]_vars

(***************************************************************************)
(* The translators called on their own: translateCommonVariables on a      *)
(* selection, translateCommonValues on a value list and a variable name,   *)
(* and each of them once more on what it returned.                         *)
(***************************************************************************)
MaxTranslateKeys == 2

MaxValueList == 2

TranslatorKeys ==
    { "year", "Year", "månad", "MÅNAD", "Tid", "tid", "TID", "region", "sex", "Kon",
      "ContentsCode", "foo", "Foo", "constructor", "toString" }

TranslatorKeyValues == { <<"1">>, <<"2">> }

TranslatorEntries == { KV(k, v) : k \in TranslatorKeys, v \in TranslatorKeyValues }

RECURSIVE TranslatorSelections(_)
TranslatorSelections(n) ==
    IF n = 0 THEN { <<>> }
    ELSE LET shorter == TranslatorSelections(n - 1)
         IN  shorter \cup { Append(sel, e) : sel \in { t \in shorter : Len(t) = n - 1 },
                                             e \in TranslatorEntries }

\* the variable names translateCommonValues is called with
VariableNames == { "Alder", "Tid", "Kon", "Region", "foo" }

TranslatorValues ==
    { "total", "ALL", "totals", "alla", "latest", "Woman", "*", "TOP(5)", "BOTTOM(3)",
      "RANGE(2020,2024)", "2024", "2024-05", "1484", "constructor" }

RECURSIVE ValueLists(_)
ValueLists(n) ==
    IF n = 0 THEN { <<>> }
    ELSE LET shorter == ValueLists(n - 1)
         IN  shorter \cup { Append(xs, x) : xs \in { t \in shorter : Len(t) = n - 1 },
                                            x \in TranslatorValues }

TranslatorInputs ==
    { [op |-> "variables", selection |-> sel] :
        sel \in { t \in TranslatorSelections(MaxTranslateKeys) : DistinctKeys(t) } }
    \cup { [op |-> "values", values |-> xs, variableName |-> v] :
             xs \in ValueLists(MaxValueList), v \in VariableNames }

\* a call of translateCommonValues: value.toLowerCase() (line 656) of a
\* value that is no string is a TypeError
CallTranslateValues(values, variableName) ==
    IF \A i \in 1..Len(values) : IsString(values[i])
    THEN [kind |-> "returned", message |-> "",
          value |-> << translateCommonValues(values, variableName) >>]
    ELSE [kind |-> "threw", message |-> "value.toLowerCase is not a function", value |-> <<>>]

\* a call of translateCommonVariables: the keys of an object are strings
CallTranslateVariables(selection) ==
    [kind |-> "returned", message |-> "", value |-> << translateCommonVariables(selection) >>]

InitTranslate ==
    /\ rateLimitInfo = <<>>
    /\ requestCount = 0
    /\ windowStartTime = 0
    /\ clock = 0
    /\ calls = [c \in Calls |-> IdleCall]
    /\ configFetches = 0
    /\ input \in TranslatorInputs
    /\ output = <<>>

\* the argument of the next call: the input, then what the last call returned
NextArgument == IF output = <<>>
                THEN IF input.op = "variables" THEN input.selection ELSE input.values
                ELSE output[Len(output)].value[1]

\* the first call, or a second one after the first returned
CanGoOn == IF output = <<>> THEN TRUE ELSE output[Len(output)].kind = "returned"

TranslateVariables ==
    /\ input.op = "variables"
    /\ Len(output) < 2
    /\ CanGoOn
    /\ output' = Append(output, CallTranslateVariables(NextArgument))
    /\ UNCHANGED << client, input >>

TranslateValues ==
    /\ input.op = "values"
    /\ Len(output) < 2
    /\ CanGoOn
    /\ output' = Append(output, CallTranslateValues(NextArgument, input.variableName))
    /\ UNCHANGED << client, input >>

NextTranslate == TranslateVariables \/ TranslateValues

SpecTranslate == InitTranslate /\ [][NextTranslate]_vars

(***************************************************************************)
(* The properties.                                                         *)
(***************************************************************************)
Capacity == rateLimitInfo[1].maxCalls

\* call c leaves checkRateLimit in this step: it is let pass or rejected
ChecksIn(c) ==
    /\ calls[c].pc = "check"
    /\ rateLimitInfo # <<>>
    /\ calls'[c].pc # "check"

RejectedAtAdmission(call) ==
    /\ call.pc = "done"
    /\ call.response = <<>>
    /\ IF call.op \in {"validate"}
       THEN /\ call.outcome.kind = "returned"
            /\ StartsWith(call.outcome.value[1].errors[1], "Validation failed: Rate limit exceeded.")
       ELSE /\ call.outcome.kind = "threw"
            /\ Includes(call.outcome.message, "Rate limit exceeded. Try again in ")

\* C1: with the calls run one after another, the counter never exceeds the
\* capacity of the window: requestCount <= maxCalls in every state.
C1_QuotaInvariant == rateLimitInfo # <<>> => requestCount <= Capacity

\* the quota is used up and a call was rejected for it
C1_Witness ==
    /\ rateLimitInfo # <<>>
    /\ requestCount = Capacity
    /\ \E c \in Calls : RejectedAtAdmission(calls[c]) /\ calls[c].sent = <<>>

\* C2: under any interleaving of calls that run together, the counter never
\* exceeds the capacity: two calls never both pass the admission check on
\* the last free slot.
C2_ConcurrentQuota ==
    \A c \in Calls : rateLimitInfo # <<>> /\ calls[c].pc = "done" => requestCount <= Capacity

\* C3: a check made once windowSeconds have passed since windowStart resets
\* the window (used = 0, windowStart = now, resetAt = now + windowSeconds)
\* and lets the call pass.
C3_ResetAfterWindow ==
    [][\A c \in Calls :
          ( /\ ChecksIn(c)
            /\ clock >= windowStartTime + rateLimitInfo[1].timeWindow * MsPerSecond )
          => /\ requestCount' = 0
             /\ windowStartTime' = clock
             /\ rateLimitInfo'[1].resetTime = clock + rateLimitInfo[1].timeWindow * MsPerSecond
             /\ calls'[c].pc = "fetch"]_vars

\* C4: after the reset step a check rejects exactly when used >= capacity,
\* and the error it throws tells the time left to resetAt, in whole seconds
\* rounded up, and the usage.
C4_AdmissionDecision ==
    [][\A c \in Calls :
          ChecksIn(c)
          => LET info == rateLimitInfo'[1]
                 waitTime == info.resetTime - clock
             IN  /\ (calls'[c].pc = "fetch") <=> (requestCount' < info.maxCalls)
                 /\ requestCount' >= info.maxCalls
                    => calls'[c] = Raise([calls[c] EXCEPT !.response = <<>>],
                           "Rate limit exceeded. Try again in "
                             \o ToString(CeilDiv(waitTime, 1000))
                             \o " seconds. Current usage: " \o ToString(requestCount')
                             \o "/" \o ToString(info.maxCalls))]_vars

\* a call was rejected in the middle of the fallback window, after 30
\* recorded calls
C4_Witness ==
    /\ rateLimitInfo # <<>>
    /\ requestCount = 30
    /\ clock < rateLimitInfo[1].resetTime
    /\ clock > windowStartTime
    /\ \E c \in Calls :
         /\ RejectedAtAdmission(calls[c])
         /\ calls[c].op = "request"
         /\ calls[c].outcome.message
              = "Rate limit exceeded. Try again in 5 seconds. Current usage: 30/30"

\* the config fetch failed: it threw, the status is not OK, the body is no
\* JSON or no config
ConfigFailed(resp) ==
    \/ resp.type = "throw"
    \/ ~(resp.status >= 200 /\ resp.status <= 299)
    \/ resp.body = <<>>
    \/ ~ConfigParses(resp.body[1])

\* C5: when the config fetch fails in any way, initialisation ends with
\* capacity 30 and window 10 s, and the call goes on to its admission check
\* with no error.
C5_InitFallback ==
    [][\A c \in Calls :
          ( /\ calls[c].pc = "init"
            /\ calls'[c].pc # "init"
            /\ ConfigFailed(calls'[c].response[1]) )
          => /\ rateLimitInfo' # <<>>
             /\ rateLimitInfo'[1].maxCalls = 30
             /\ rateLimitInfo'[1].timeWindow = 10
             /\ rateLimitInfo'[1].resetTime = clock + 10000
             /\ calls'[c].pc = "check"
             /\ calls'[c].outcome = NoOutcome]_vars

\* a call whose config fetch answered 503 went on with the fallback window
C5_Witness ==
    \E c \in Calls :
       /\ calls[c].pc = "check"
       /\ calls[c].sent = <<>>
       /\ calls[c].response # <<>>
       /\ calls[c].response[1].status = 503
       /\ rateLimitInfo # <<>>
       /\ Capacity = 30

PostsOf(call) == { i \in 1..Len(call.sent) : call.sent[i].method = "POST" }

\* C6: a POST of the data goes out only from getTableData with a selection,
\* after the metadata request of the same call, when the validation of that
\* call is valid, and with the translated selection of that validation as
\* its body; a call whose validation is not valid throws and posts nothing.
C6_ValidateBeforeFetch ==
    \A c \in Calls :
       LET call == calls[c]
       IN  /\ \A i \in PostsOf(call) :
                /\ call.op = "data"
                /\ i = 2
                /\ call.sent[1] = [method |-> "GET", endpoint |-> "metadata", body |-> <<>>]
                /\ call.validation # <<>>
                /\ call.validation[1].isValid
                /\ Has(call.validation[1], "translatedSelection")
                /\ call.sent[i].body
                     = [j \in 1..Len(call.validation[1].translatedSelection) |->
                          [variableCode |-> call.validation[1].translatedSelection[j].key,
                           valueCodes |-> call.validation[1].translatedSelection[j].val]]
           /\ call.op = "data" /\ call.pc = "done" /\ call.validation = <<>>
              => call.outcome.kind = "threw" /\ PostsOf(call) = {}
           /\ call.op = "data" => \A i \in 1..Len(call.sent) :
                                     call.sent[i].endpoint = "data" => i \in PostsOf(call)

\* the data request went out with the names and values translated
C6_Witness ==
    \E c \in Calls :
       /\ calls[c].pc = "fetch"
       /\ calls[c].selection = << KV("region", <<"1484">>), KV("year", <<"2024">>) >>
       /\ PostsOf(calls[c]) = {2}
       /\ calls[c].sent[2].body = << [variableCode |-> "Region", valueCodes |-> <<"1484">>],
                                     [variableCode |-> "Tid", valueCodes |-> <<"2024">>] >>


MetadataFailed(call) ==
    \/ call.response = <<>>
    \/ call.response[1].type = "throw"
    \/ ~(call.response[1].status >= 200 /\ call.response[1].status <= 299)
    \/ ~Includes(call.response[1].contentType, "application/json")
    \/ call.response[1].body = <<>>
    \/ ~Has(call.response[1].body[1], "dimension")

\* C8: validateSelection never throws: a call of it ends with a returned
\* ValidationResult, and when the metadata fetch failed (rate-limit
\* rejection, network error, non-OK response, non-JSON body, schema error)
\* the result has isValid = false and exactly one error.
C8_ValidationNeverThrows ==
    \A c \in Calls :
       calls[c].op = "validate" /\ calls[c].pc = "done"
       => /\ calls[c].outcome.kind = "returned"
          /\ MetadataFailed(calls[c])
             => /\ ~calls[c].outcome.value[1].isValid
                /\ Len(calls[c].outcome.value[1].errors) = 1

\* validateSelection returned the schema error of the metadata as its one
\* error
C8_Witness ==
    \E c \in Calls :
       /\ calls[c].op = "validate"
       /\ calls[c].pc = "done"
       /\ calls[c].response = << JsonResp(NotADataset) >>
       /\ calls[c].outcome.kind = "returned"
       /\ calls[c].outcome.value[1].errors = << "Validation failed: ZodError: Required" >>

C10_ResultShape ==
    output # <<>>
    => /\ output[1].isValid <=> output[1].errors = <<>>
       /\ ~output[1].isValid => output[1].suggestions # <<>>

\* an unknown value with no value like it: the one suggestion is to list
\* the values
C10_Witness ==
    /\ output # <<>>
    /\ input = << << KV("sex", <<"1484">>) >>, MetadataReturned(SexMetadata) >>
    /\ output[1].errors = << "Value \"1484\" not found for variable \"Kon\"" >>
    /\ Len(output[1].suggestions) = 1

\* the payload given to the decoder has a value array
HasValues == input.value # <<>>

Values == input.value[1]

\* the flat indices of the entries that are not null, ascending
NonNullIndices ==
    LET NotNull(f) == Values[f + 1] # <<>>
    IN  SelectSeq([i \in 1..Len(Values) |-> i - 1], NotNull)

RECURSIVE Product(_)
Product(sizes) == IF Len(sizes) = 0 THEN 1 ELSE sizes[1] * Product(Tail(sizes))

Sizes == [i \in 1..Len(input.dimension) |-> Len(input.dimension[i].val.category.index)]

\* the product of the sizes of the dimensions after dimension i
Stride(i) == Product(SubSeq(Sizes, i + 1, Len(Sizes)))

\* the coordinate of a record in dimension i: the place of its code among
\* the codes of the dimension, from 0 (-1 when the code is none of them)
Coordinate(record, i) ==
    LET codes == Keys(input.dimension[i].val.category.index)
        code == Get(record, getDimensionBaseName(input.dimension[i].key) \o "_code")
    IN  IF \E j \in 1..Len(codes) : codes[j] = code
        THEN (CHOOSE j \in 1..Len(codes) : codes[j] = code) - 1
        ELSE -1

RECURSIVE Encode(_, _)
Encode(record, i) ==
    IF i > Len(Sizes) THEN 0
    ELSE Coordinate(record, i) * Stride(i) + Encode(record, i + 1)

\* C11: for a payload whose value array is as long as the product of the
\* dimension sizes, the record of a non-null flat index f carries in each
\* dimension the code at the mixed-radix digit of f, the last dimension
\* varying fastest, and encoding the coordinates of the record gives f.
C11_DecoderRoundTrip ==
    output # <<>> /\ HasValues /\ Len(Values) = Product(Sizes)
    => /\ Len(output[1].data) = Len(NonNullIndices)
       /\ \A k \in 1..Len(NonNullIndices) :
             LET f == NonNullIndices[k]
                 record == output[1].data[k]
             IN  /\ \A i \in 1..Len(Sizes) :
                       /\ HasKey(record, getDimensionBaseName(input.dimension[i].key) \o "_code")
                       /\ Coordinate(record, i) = (f \div Stride(i)) % Sizes[i]
                 /\ Encode(record, 1) = f

\* the eighth of the twelve values of a table of 2 x 2 x 3 categories
C11_Witness ==
    /\ output # <<>>
    /\ input.dimension = << RegionDimension, TidDimension, KonDimension >>
    /\ HasValues
    /\ Len(Values) = 12
    /\ Len(output[1].data) = 12
    /\ Get(output[1].data[8], "region_code") = "0180"
    /\ Get(output[1].data[8], "year_code") = "2023"
    /\ Get(output[1].data[8], "sex_code") = "2"
    /\ Get(output[1].data[8], "value") = 70

\* C12: when the value array is not as long as the product of the
\* dimension sizes, decoding returns no records (it raises an error).
C12_DecoderSizeInvariant ==
    output # <<>> /\ HasValues /\ Len(Values) # Product(Sizes)
    => output[1].data = <<>>

\* C13: the decoder emits one record per non-null entry of the value array
\* and none for a null entry, with the entry as the value of the record,
\* in ascending order of the flat index.
C13_DecoderCountAndOrder ==
    output # <<>>
    => IF HasValues
       THEN /\ Len(output[1].data) = Len(NonNullIndices)
            /\ \A k \in 1..Len(NonNullIndices) :
                  Get(output[1].data[k], "value") = Values[NonNullIndices[k] + 1][1]
            /\ \A k \in 1..(Len(output[1].data) - 1) :
                  Get(output[1].data[k], "value") < Get(output[1].data[k + 1], "value")
       ELSE output[1].data = <<>>

\* four values, the second null: three records, the first with value 0
C13_Witness ==
    /\ output # <<>>
    /\ input.dimension = << RegionDimension, TidDimension >>
    /\ HasValues
    /\ Values = << <<0>>, <<>>, <<20>>, <<30>> >>
    /\ Len(output[1].data) = 3
    /\ Get(output[1].data[1], "value") = 0
    /\ Get(output[1].data[2], "value") = 20
    /\ Get(output[1].data[3], "value") = 30

\* C14: a call of validateSelection dispatches no outbound call and does
\* not raise the request counter.
C14_ValidationMakesNoRequest ==
    [][\A c \in Calls :
          calls[c].op = "validate" /\ calls'[c].op = "validate"
          => /\ calls'[c].sent = <<>>
             /\ requestCount' <= requestCount]_vars

\* C15: the translators never raise, and translating what they returned
\* changes nothing: name(name(k)) = name(k), values(values(xs, v), v) =
\* values(xs, v).
C15_TranslatorsIdempotent ==
    /\ \A i \in 1..Len(output) : output[i].kind = "returned"
    /\ Len(output) = 2 => output[2].value = output[1].value

\* the plain table lookup of the claim: the entry of the key, else the
\* entry of its lower-cased form, else the key
TableName(key) ==
    IF \E i \in 1..Len(variableMapping) : variableMapping[i].key = key
    THEN variableMapping[CHOOSE i \in 1..Len(variableMapping) :
                            variableMapping[i].key = key].val
    ELSE IF \E i \in 1..Len(variableMapping) : variableMapping[i].key = ToLowerCase(key)
    THEN variableMapping[CHOOSE i \in 1..Len(variableMapping) :
                            variableMapping[i].key = ToLowerCase(key)].val
    ELSE key

\* C16: a selection key that is an entry of the name table is mapped by
\* that entry, else by the entry of its lower-cased form if there is one,
\* else it is passed through unchanged.
C16_NameLookupOrder ==
    Len(output) >= 1 /\ input.op = "variables" /\ Len(input.selection) = 1
    => Keys(output[1].value[1]) = << TableName(input.selection[1].key) >>

IsExpressionToken(value) ==
    \/ value = "*"
    \/ Len(value) >= 4 /\ SubSeq(value, 1, 4) = "TOP("
    \/ Len(value) >= 7 /\ SubSeq(value, 1, 7) = "BOTTOM("
    \/ Len(value) >= 6 /\ SubSeq(value, 1, 6) = "RANGE("

\* C17: for every variable code, a value that is '*' or starts with 'TOP(',
\* 'BOTTOM(' or 'RANGE(' comes back unchanged from translateCommonValues.
C17_ExpressionTokensKept ==
    Len(output) >= 1 /\ input.op = "values" /\ output[1].kind = "returned"
    => \A i \in 1..Len(input.values) :
          IsExpressionToken(input.values[i]) => output[1].value[1][i] = input.values[i]

\* a wildcard after a synonym of it, and a TOP token for the time variable
C17_Witness ==
    /\ Len(output) >= 1
    /\ input.op = "values"
    /\ input.variableName = "Tid"
    /\ input.values = << "TOP(5)", "*" >>
    /\ output[1].value[1] = << "TOP(5)", "*" >>

\* C18: in every state in which the window is initialised, the reset time
\* of the usage snapshot is the window start plus the time window.
C18_ResetAtIsStartPlusWindow ==
    rateLimitInfo # <<>>
    => rateLimitInfo[1].resetTime
         = windowStartTime + rateLimitInfo[1].timeWindow * MsPerSecond

\* C19: under any interleaving of calls the config fetch of the
\* initialisation is dispatched at most once, and once initialisation has
\* set the window it does not set it again.
C19_InitialisedOnce ==
    [][/\ configFetches' <= 1
       /\ rateLimitInfo # <<>>
          => \A c \in Calls : ~(calls[c].pc = "init" /\ calls'[c].pc # "init")]_vars

\* call c has a fetch in flight that settles in this step
Settles(c) == calls[c].pc \in {"init", "fetch"} /\ calls'[c] # calls[c]

\* C20: every outbound call the client dispatched raises the counter by
\* exactly one, whatever came back; a call rejected at admission leaves
\* the counter as it is.
C20_EveryCallCounted ==
    [][\A c \in Calls :
          /\ Settles(c) => requestCount' = requestCount + 1
          /\ ChecksIn(c) /\ calls'[c].pc # "fetch" => requestCount' = requestCount]_vars

\* ---- C21 ----

IsDataCall(call) == call.op \in {"data", "dataDefault"}

\* the requests a getTableData call may have dispatched so far, in order
DataRequestsInOrder(call) ==
    IF call.op = "dataDefault"
    THEN \/ call.sent = <<>>
         \/ call.sent = << [method |-> "GET", endpoint |-> "data", body |-> <<>>] >>
    ELSE /\ Len(call.sent) <= 2
         /\ Len(call.sent) >= 1 =>
               call.sent[1] = [method |-> "GET", endpoint |-> "metadata", body |-> <<>>]
         /\ Len(call.sent) = 2 =>
               /\ call.sent[2].method = "POST"
               /\ call.sent[2].endpoint = "data"
               /\ call.validation # <<>>

\* call c dispatches a request in this step only as the outcome of an
\* admission check of its own that let it pass
DispatchedAfterCheck(c) ==
    Len(calls'[c].sent) > Len(calls[c].sent) =>
        /\ ChecksIn(c)
        /\ ~Exhausted(requestCount', rateLimitInfo'[1])
        /\ calls'[c].pc = "fetch"
        /\ Len(calls'[c].sent) = Len(calls[c].sent) + 1

\* by how much used went up since the call began
RaisedBy(call) == requestCount - call.before[1].requestCount

\* no admission check of the call started a new window
SameWindow(call) == windowStartTime = call.before[1].windowStartTime

ValidationFailedIn(call) ==
    call.op = "data" /\ call.validation = <<>> /\ call.outcome.kind = "threw"

MetadataAnswered(call) ==
    /\ call.sent # <<>>
    /\ call.response # <<>>
    /\ call.response[1].type # "throw"

\* the counts as the specification states them
CountsAsStated(call) ==
    /\ call.outcome.kind = "returned" =>
          RaisedBy(call) = (IF call.op = "data" THEN 2 ELSE 1)
    /\ ValidationFailedIn(call) => RaisedBy(call) = 1

\* the counts of a call in whose course no new window began
CountsInOneWindow(call) ==
    SameWindow(call) =>
        /\ call.outcome.kind = "returned" =>
              RaisedBy(call) = (IF call.op = "data" THEN 2 ELSE 1)
        /\ ValidationFailedIn(call) =>
              RaisedBy(call) = (IF MetadataAnswered(call) THEN 1 ELSE 0)

FinishedDataCalls == { c \in Calls : IsDataCall(calls[c]) /\ calls[c].pc = "done" }

\* C21 as stated: a getTableData call dispatches at most one metadata
\* request and then at most one data request, each after an admission check
\* of its own and none twice; run alone, a successful call raises used by
\* exactly 2 (1 without a selection) and a call whose validation fails
\* raises it by exactly 1.
C21_OneFetchEachAndCounts ==
    [][\A c \in Calls :
          /\ DispatchedAfterCheck(c)
          /\ IsDataCall(calls'[c]) => DataRequestsInOrder(calls'[c])
          /\ (IsDataCall(calls'[c]) /\ calls'[c].pc = "done" /\ calls[c].pc # "done") =>
                CountsAsStated(calls[c])']_vars

\* C21 amended: the same order of requests and checks; when no window began
\* during the call, a successful call raises used by exactly 2 (1 without a
\* selection) and a call whose validation fails raises it by 1 when the
\* metadata request was answered and by 0 when that request was rejected at
\* admission or its fetch failed.
C21_OneFetchEachAndCountsInWindow ==
    [][\A c \in Calls :
          /\ DispatchedAfterCheck(c)
          /\ IsDataCall(calls'[c]) => DataRequestsInOrder(calls'[c])
          /\ (IsDataCall(calls'[c]) /\ calls'[c].pc = "done" /\ calls[c].pc # "done") =>
                CountsInOneWindow(calls[c])']_vars

C21_Witness ==
    \E c \in FinishedDataCalls :
        /\ calls[c].op = "data"
        /\ calls[c].outcome.kind = "returned"
        /\ Len(calls[c].sent) = 2
        /\ SameWindow(calls[c])
        /\ RaisedBy(calls[c]) = 2

\* ---- C22 ----

\* the resolved selection of the validator's input and the dimensions of
\* the metadata it was given
Resolved == ResolveSelection(input[1])

FetchedDimension == input[2].value[1].dimension

ValueNotFound(value, varCode) ==
    "Value \"" \o value \o "\" not found for variable \"" \o varCode \o "\""

Reports(result, message) == \E j \in 1..Len(result.errors) : result.errors[j] = message

VariableNotFound(varCode) == "Variable \"" \o varCode \o "\" not found in table"

CountOf(messages, message) ==
    Cardinality({ j \in 1..Len(messages) : messages[j] = message })

\* the dimension codes that contain the key, or whose label does, whatever
\* the case
SimilarCodes(varCode) ==
    LET Similar(v) ==
            \/ Includes(ToLowerCase(v), ToLowerCase(varCode))
            \/ Includes(ToLowerCase(Get(FetchedDimension, v).label), ToLowerCase(varCode))
    IN  SelectSeq(Keys(FetchedDimension), Similar)

SuggestionFor(varCode) ==
    IF SimilarCodes(varCode) # <<>>
    THEN "Did you mean: " \o Join(Quoted(SimilarCodes(varCode)), ", ") \o "?"
    ELSE "Available variables: " \o Join(Keys(FetchedDimension), ", ")

UnknownKeys ==
    { i \in 1..Len(Resolved) : ~Contains(Keys(FetchedDimension), Resolved[i].key) }

NoDimensions ==
    /\ input[2].kind = "returned"
    /\ IF Has(input[2].value[1], "dimension")
       THEN input[2].value[1].dimension = <<>>
       ELSE TRUE

\* C24: when the fetched metadata has no dimensions, whatever the selection
\* (the empty one too), the result is invalid with the one error that the
\* metadata is not available, and nothing of the selection is checked.
C24_NoDimensionsInvalid ==
    output # <<>> /\ NoDimensions
    => /\ ~output[1].isValid
       /\ output[1].errors = << "Table metadata not available for validation" >>

\* ---- C25 ----

\* the value the precedence of the claim gives: the table of the variable,
\* then the general table, both by the lower-cased value, then the time
\* formats of Tid, else the value itself
StatedValue(value, variableName) ==
    LET lower == ToLowerCase(value)
    IN  IF HasKey(valueMapping, variableName) /\ HasKey(Get(valueMapping, variableName), lower)
        THEN Get(Get(valueMapping, variableName), lower)
        ELSE IF HasKey(Get(valueMapping, "*"), lower)
        THEN Get(Get(valueMapping, "*"), lower)
        ELSE IF variableName = "Tid" /\ IsYearMonth(value)
        THEN SubSeq(value, 1, 4) \o "M" \o SubSeq(value, 6, 7)
        ELSE value

\* C25: a value is translated by the table of its variable (looked up in
\* lower case) before the general table, and by the general table before
\* the time formats; for Tid a four-digit year stays and YYYY-MM becomes
\* YYYYMmm; every other value comes back unchanged.
C25_ValuePrecedence ==
    Len(output) >= 1 /\ input.op = "values"
    => /\ output[1].kind = "returned"
       /\ output[1].value[1] =
            [i \in 1..Len(input.values) |-> StatedValue(input.values[i], input.variableName)]

\* ---- C26 ----

WindowState == << rateLimitInfo, requestCount, windowStartTime >>

\* call c is inside checkRateLimit (its initialisation included) and moves
InAdmissionCheck(c) == calls[c].pc \in {"check", "init"} /\ calls'[c] # calls[c]

\* the request of call c is answered and recorded
Recorded(c) ==
    /\ calls[c].pc = "fetch"
    /\ calls'[c].response # <<>>
    /\ calls'[c].response[1].type # "throw"

\* a caller reads the usage snapshot and starts its call
ReadsSnapshot(c) == calls[c].pc = "idle" /\ calls'[c].pc # "idle"

\* C26: the window state (count, window start, reset time, capacity, in
\* rateLimitInfo, requestCount and windowStartTime) changes only inside an
\* admission check or when a call is recorded; the passage of time changes
\* nothing, and reading the snapshot changes nothing, dispatches nothing,
\* does not initialise the window and shows the state as it is, also after
\* the window has elapsed.
C26_WindowChangesOnlyAtCheckOrRecord ==
    [][/\ WindowState' # WindowState
          => \E c \in Calls : InAdmissionCheck(c) \/ Recorded(c)
       /\ clock' # clock
          => UNCHANGED << WindowState, calls, configFetches >>
       /\ \A c \in Calls :
             ReadsSnapshot(c)
             => /\ UNCHANGED << WindowState, configFetches, clock >>
                /\ calls'[c].sent = <<>>
                /\ calls'[c].before = << [requestCount |-> requestCount,
                                          windowStartTime |-> windowStartTime,
                                          rateLimitInfo |-> rateLimitInfo] >>]_vars

\* a snapshot read after the reset time, before the next admission check:
\* it shows the count and the reset time of the window that has ended
C26_Witness ==
    \E c \in Calls :
        /\ calls[c].pc = "check"
        /\ calls[c].before # <<>>
        /\ calls[c].before[1].rateLimitInfo # <<>>
        /\ clock >= calls[c].before[1].rateLimitInfo[1].resetTime
        /\ calls[c].before[1].requestCount > 0
        /\ calls[c].before[1].requestCount = requestCount
        /\ calls[c].before[1].rateLimitInfo = rateLimitInfo

\* ---- C27 ----

\* no two dimensions of the payload have the same base name
BaseNamesDiffer ==
    \A i, j \in 1..Len(input.dimension) :
        getDimensionBaseName(input.dimension[i].key) = getDimensionBaseName(input.dimension[j].key)
        => i = j

\* the code that the index of dimension i gives the position c
CodeAtIndex(i, c) ==
    LET index == input.dimension[i].val.category.index
    IN  index[CHOOSE j \in 1..Len(index) : index[j].val = c].key

\* C27: the decoder takes the code of a coordinate from the index of the
\* dimension: the record of flat index f carries in dimension i the code
\* whose category.index is the mixed-radix digit of f, whatever the order
\* in which the keys of the index are enumerated (stated for the payloads
\* whose dimensions have base names of their own).
C27_CodeByIndex ==
    output # <<>> /\ HasValues /\ Len(Values) = Product(Sizes) /\ BaseNamesDiffer
    => \A k \in 1..Len(NonNullIndices) :
          LET f == NonNullIndices[k]
              record == output[1].data[k]
          IN  \A i \in 1..Len(Sizes) :
                 Get(record, getDimensionBaseName(input.dimension[i].key) \o "_code")
                   = CodeAtIndex(i, (f \div Stride(i)) % Sizes[i])

\* ---- C28 ----

\* the values of the list xs are all in the list ys
AllIn(xs, ys) == \A i \in 1..Len(xs) : \E j \in 1..Len(ys) : ys[j] = xs[i]

C29_RecordFields ==
    output # <<>>
    => \A k \in 1..Len(output[1].data) :
          /\ BaseNamesDiffer
          /\ Len(output[1].data[k]) = 2 * Len(input.dimension) + 1

\* ---- C30 ----

\* C30: in every state in which the window is initialised, whatever the
\* interleaving of the calls, the remaining budget is the capacity less the
\* count, and never below 0.
C30_RemainingConsistent ==
    rateLimitInfo # <<>>
    => rateLimitInfo[1].remaining
         = (IF Capacity - requestCount > 0 THEN Capacity - requestCount ELSE 0)

====
